---- MODULE Spec2Model ----
(***************************************************************************)
(* Order intake and cancellation of piter-app-firebase.                    *)
(*                                                                         *)
(* The repository holds two variants of the same two HTTP handlers:        *)
(*   "tree" : src/unnamed/part_000      (Realtime Database, hand-built     *)
(*            index paths ordersDeliveryByUser / ByLocal / ByStatus)       *)
(*   "doc"  : src/functions/src/index.ts (Firestore, a batch of orders per *)
(*            request, history as a sub-collection, no index paths)        *)
(* A deployment runs one of them; the variable `variant` is fixed by Init. *)
(* Every `await` of a handler is a separate step, so handlers interleave   *)
(* exactly at the store calls.                                             *)
(***************************************************************************)
EXTENDS Integers, Sequences, FiniteSets, TLC

VARIABLES
  variant,    \* "tree" or "doc": which of the two source files is deployed
  orders,     \* ordersDelivery: order id -> <<>> (absent) or <<order record>>
  history,    \* ordersDelivery/<id>/history: order id -> sequence of entries
  byUser,     \* ordersDeliveryByUser:   userId  -> set of order ids
  byLocal,    \* ordersDeliveryByLocal:  localId -> set of order ids
  byStatus,   \* ordersDeliveryByStatus: status  -> set of order ids
  nextId,     \* next identifier push() / doc() hands out
  clock,      \* the store's server timestamp, resolved at commit
  h,          \* handler invocations in flight: slot -> [pc, op, req, ids, staged, cur]
  last,       \* the response sent most recently: [slot, op, req, ids, resp]
  nreq        \* requests received so far (bounds the behaviour)

vars == <<variant, orders, history, byUser, byLocal, byStatus, nextId, clock, h, last, nreq>>

store == <<orders, history, byUser, byLocal, byStatus>>

----------------------------------------------------------------------------
(* Bounds of the model *)

MaxOrders == 2     \* identifiers the store can hand out
MaxReqs   == 3     \* requests received in one behaviour

Slots    == {1, 2}                 \* concurrent handler invocations
OrderIds == 1..MaxOrders

Users    == {"u1", "u2"}
Locals   == {"l1"}
Statuses == {"created", "confirmed", "delivered", "cancelled"}

----------------------------------------------------------------------------
(* JavaScript values and coercions used by the handlers *)

\* a raw JSON value that is expected to be a number
Undef   == [t |-> "undefined"]
Null    == [t |-> "null"]
Str(s)  == [t |-> "string", s |-> s]
Num(n)  == [t |-> "number", n |-> n]
NaN     == [t |-> "NaN"]

\* Number(x): undefined -> NaN, null -> 0, "" -> 0, other text -> NaN
\* (the model's strings are never numerals)
Number(x) ==
  CASE x.t = "number"    -> x
    [] x.t = "null"      -> Num(0)
    [] x.t = "string"    -> IF x.s = "" THEN Num(0) ELSE NaN
    [] OTHER             -> NaN

\* !x
Falsy(x) ==
  CASE x.t = "number"    -> x.n = 0
    [] x.t = "string"    -> x.s = ""
    [] OTHER             -> TRUE

\* x || 0
OrZero(x) == IF Falsy(x) THEN Num(0) ELSE x

\* x ?? 0
NullishZero(x) == IF x.t \in {"undefined", "null"} THEN Num(0) ELSE x

\* Number.isFinite(x) for an already coerced x
IsFinite(x) == x.t = "number"

\* a <= 0, a < 0 on coerced numbers: every comparison with NaN is false
LeqZero(x) == x.t = "number" /\ x.n <= 0
LtZero(x)  == x.t = "number" /\ x.n < 0

Max(a, b) == IF a >= b THEN a ELSE b

\* arithmetic of JavaScript numbers: NaN is contagious
Add(x, y) == IF x.t = "number" /\ y.t = "number" THEN Num(x.n + y.n) ELSE NaN
Sub(x, y) == IF x.t = "number" /\ y.t = "number" THEN Num(x.n - y.n) ELSE NaN
Mul(x, y) == IF x.t = "number" /\ y.t = "number" THEN Num(x.n * y.n) ELSE NaN

\* Math.max(0, x)
MaxZero(x) == IF x.t = "number" THEN Num(Max(0, x.n)) ELSE NaN

\* a JSON value that should be an array
NotArray  == [isArray |-> FALSE, list |-> <<>>]
Array(l)  == [isArray |-> TRUE, list |-> l]

\* an optional field of a stored record
Unset     == <<>>
Set(v)    == <<v>>

----------------------------------------------------------------------------
(* Responses: res.status(code).json(...) *)

NoResp == [code |-> 0, error |-> "", at |-> <<>>, ids |-> <<>>]

Fail(code, msg)       == [code |-> code, error |-> msg, at |-> <<>>, ids |-> <<>>]
FailAt(code, msg, at) == [code |-> code, error |-> msg, at |-> at, ids |-> <<>>]
Ok(ids)               == [code |-> 200, error |-> "", at |-> <<>>, ids |-> ids]

\* catch (e): res.status(500).json({ error: e?.message || "Internal error" })
CaughtAs(m) == m
Caught(m)   == Fail(500, IF m = "" THEN "Internal error" ELSE CaughtAs(m))

\* messages a failing store call can carry ("" : an error without a message)
StoreErrors == {"", "UNAVAILABLE: store unreachable"}

Idle == [pc |-> "idle", op |-> "none", req |-> <<>>, ids |-> <<>>,
         staged |-> <<>>, cur |-> ""]

NoneYet == [slot |-> 0, op |-> "none", req |-> <<>>, ids |-> <<>>, resp |-> NoResp]

\* the handler of slot p returns `resp`
Respond(p, op, req, ids, resp) ==
  /\ h' = [h EXCEPT ![p] = Idle]
  /\ last' = [slot |-> p, op |-> op, req |-> req, ids |-> ids, resp |-> resp]

\* the handler of slot p suspends at an await
Await(p, pc, op, req, ids, staged, cur) ==
  /\ h' = [h EXCEPT ![p] = [pc |-> pc, op |-> op, req |-> req, ids |-> ids,
                            staged |-> staged, cur |-> cur]]
  /\ UNCHANGED last

\* a new request runs in the first slot that is not in the middle of a request
Busy(p) == h[p].pc # "idle"
Free(p) == ~Busy(p) /\ (\A q \in Slots : q < p => Busy(q)) /\ nreq < MaxReqs

----------------------------------------------------------------------------
(* Tree variant, createOrderDelivery: src/unnamed/part_000 *)

\* calcTotals: the subtotal loop (also sets each item's totalPrice)
RECURSIVE SumTotalPrice(_)
SumTotalPrice(items) ==
  IF items = <<>> THEN Num(0)
  ELSE Add(SumTotalPrice(SubSeq(items, 1, Len(items) - 1)),
           items[Len(items)].totalPrice)

PricedItem(it) ==
  [it EXCEPT !.totalPrice = Mul(Number(OrZero(it.quantity)), Number(OrZero(it.unitPrice)))]

PricedItems(items) == [k \in 1..Len(items) |-> PricedItem(items[k])]

\* a variant of calcTotals without Math.max(0, ...)
calcTotals_NoClamp(items, deliveryFee, discount) ==
  LET subtotal == SumTotalPrice(PricedItems(items))
      fee      == Number(OrZero(deliveryFee))
      disc     == Number(OrZero(discount))
  IN  [subtotal |-> subtotal, deliveryFee |-> fee, discount |-> disc,
       total |-> Sub(Add(subtotal, fee), disc), currency |-> "MXN"]

calcTotals(items, deliveryFee, discount) ==
  LET subtotal == SumTotalPrice(PricedItems(items))
      fee      == Number(OrZero(deliveryFee))
      disc     == Number(OrZero(discount))
  IN  [subtotal |-> subtotal, deliveryFee |-> fee, discount |-> disc,
       total |-> MaxZero(Sub(Add(subtotal, fee), disc)), currency |-> "MXN"]

\* items.forEach(...): the canonical item stored under key i<idx+1>
NormalizeItemTree(it) ==
  [productId |-> it.productId, productName |-> it.productName,
   quantity |-> Number(OrZero(it.quantity)),
   unitPrice |-> Number(OrZero(it.unitPrice)),
   totalPrice |-> Num(0), comments |-> it.comments, image |-> it.image]

NormalizeItemsTree(list) == [k \in 1..Len(list) |-> NormalizeItemTree(list[k])]

\* a variant of the item check with quantity < 0 in place of quantity <= 0
InvalidItemTree_AllowsZero(it) ==
  \/ it.productId = ""
  \/ it.productName = ""
  \/ LtZero(it.quantity)
  \/ LtZero(it.unitPrice)

InvalidItemTree(it) ==
  \/ it.productId = ""
  \/ it.productName = ""
  \/ LeqZero(it.quantity)
  \/ LtZero(it.unitPrice)

\* the keys i1, i2, ... of Object.entries(itemsObj) that fail the check
BadKeysTree(items) == {k \in 1..Len(items) : InvalidItemTree(items[k])}

Least(S) == CHOOSE k \in S : \A j \in S : k <= j

\* a variant of the early returns without the check of an empty items array
ValidateTree_NoEmptyCheck(req) ==
  LET items == NormalizeItemsTree(req.items.list) IN
  IF req.method # "POST" THEN Fail(405, "Method not allowed")
  ELSE IF req.userId = "" THEN Fail(400, "Missing userId")
  ELSE IF req.localId = "" \/ req.zoneId = "" \/ Falsy(req.lat) \/ Falsy(req.lng)
    THEN Fail(400, "Missing required fields: localId, zoneId, location.lat, location.lng")
  ELSE IF ~req.items.isArray
    THEN Fail(400, "Items must be a non-empty array")
  ELSE IF BadKeysTree(items) # {}
    THEN FailAt(400, "Invalid item at", <<Least(BadKeysTree(items))>>)
  ELSE NoResp

\* a variant of the early returns that looks at the items before the header
ValidateTree_ItemsFirst(req) ==
  LET items == NormalizeItemsTree(req.items.list) IN
  IF req.method # "POST" THEN Fail(405, "Method not allowed")
  ELSE IF req.userId = "" THEN Fail(400, "Missing userId")
  ELSE IF ~req.items.isArray \/ req.items.list = <<>>
    THEN Fail(400, "Items must be a non-empty array")
  ELSE IF req.localId = "" \/ req.zoneId = "" \/ Falsy(req.lat) \/ Falsy(req.lng)
    THEN Fail(400, "Missing required fields: localId, zoneId, location.lat, location.lng")
  ELSE IF BadKeysTree(items) # {}
    THEN FailAt(400, "Invalid item at", <<Least(BadKeysTree(items))>>)
  ELSE NoResp

\* the early returns of the handler, in order; NoResp when the request passes
ValidateTree(req) ==
  LET items == NormalizeItemsTree(req.items.list) IN
  IF req.method # "POST" THEN Fail(405, "Method not allowed")
  ELSE IF req.userId = "" THEN Fail(400, "Missing userId")
  ELSE IF req.localId = "" \/ req.zoneId = "" \/ Falsy(req.lat) \/ Falsy(req.lng)
    THEN Fail(400, "Missing required fields: localId, zoneId, location.lat, location.lng")
  ELSE IF ~req.items.isArray \/ req.items.list = <<>>
    THEN Fail(400, "Items must be a non-empty array")
  ELSE IF BadKeysTree(items) # {}
    THEN FailAt(400, "Invalid item at", <<Least(BadKeysTree(items))>>)
  ELSE NoResp

\* orderData, with the server timestamps still unresolved
OrderDataTree(req, orderId) ==
  LET items == NormalizeItemsTree(req.items.list) IN
  [id |-> orderId, type |-> "delivery", userId |-> req.userId,
   localId |-> req.localId, deliveryManId |-> Null, status |-> "created",
   createdAt |-> 0, updatedAt |-> 0,
   payment |-> [method |-> IF req.payment = "" THEN "cash" ELSE req.payment,
                status |-> "pending"],
   totals |-> calcTotals(items, Number(OrZero(req.deliveryFee)),
                         Number(OrZero(req.discount))),
   items |-> PricedItems(items),
   location |-> [zoneId |-> req.zoneId, zoneName |-> req.zoneName,
                 lat |-> Number(req.lat), lng |-> Number(req.lng),
                 addressText |-> req.addressText, references |-> req.references],
   customerSnapshot |-> req.customerSnapshot,
   localSnapshot |-> req.localSnapshot,
   cancelReason |-> Unset, cancelledAt |-> Unset]

CreateOrderDeliveryTree(p, req) ==
  /\ variant = "tree"
  /\ Free(p)
  /\ nreq' = nreq + 1
  /\ LET v == ValidateTree(req) IN
     IF v # NoResp
     THEN /\ Respond(p, "create", req, <<>>, v)
          /\ UNCHANGED nextId
     ELSE /\ nextId <= MaxOrders
          /\ Await(p, "commit", "create", req, <<nextId>>,
                   <<OrderDataTree(req, nextId)>>, "")
          /\ nextId' = nextId + 1
  /\ UNCHANGED <<variant, store, clock>>

\* a variant of the update that forgets the status index path
UpdatesCreateTree_NoStatusIndex(o, ts) ==
  /\ orders'   = [orders EXCEPT ![o.id] = Set([o EXCEPT !.createdAt = ts, !.updatedAt = ts])]
  /\ history'  = [history EXCEPT ![o.id] = <<[status |-> "created", at |-> ts, by |-> "user"]>>]
  /\ byUser'   = [byUser EXCEPT ![o.userId] = @ \cup {o.id}]
  /\ byLocal'  = [byLocal EXCEPT ![o.localId] = @ \cup {o.id}]
  /\ UNCHANGED byStatus

\* the multi-path update of rtdb.ref().update(updates)
UpdatesCreateTree(o, ts) ==
  /\ orders'   = [orders EXCEPT ![o.id] = Set([o EXCEPT !.createdAt = ts, !.updatedAt = ts])]
  /\ history'  = [history EXCEPT ![o.id] = <<[status |-> "created", at |-> ts, by |-> "user"]>>]
  /\ byUser'   = [byUser EXCEPT ![o.userId] = @ \cup {o.id}]
  /\ byLocal'  = [byLocal EXCEPT ![o.localId] = @ \cup {o.id}]
  /\ byStatus' = [byStatus EXCEPT !["created"] = @ \cup {o.id}]

CreateCommitTree(p) ==
  /\ variant = "tree"
  /\ h[p].pc = "commit" /\ h[p].op = "create"
  /\ UpdatesCreateTree(h[p].staged[1], clock)
  /\ clock' = clock + 1
  /\ Respond(p, "create", h[p].req, h[p].ids, Ok(h[p].ids))
  /\ UNCHANGED <<variant, nextId, nreq>>

\* await rtdb.ref().update(updates) rejects: nothing is applied
CreateFailTree(p) ==
  /\ variant = "tree"
  /\ h[p].pc = "commit" /\ h[p].op = "create"
  /\ \E m \in StoreErrors :
       Respond(p, "create", h[p].req, h[p].ids, Caught(m))
  /\ UNCHANGED <<variant, store, nextId, clock, nreq>>

----------------------------------------------------------------------------
(* Document variant, createOrderDelivery: src/functions/src/index.ts *)

calcTotalsFromItemTotals(items) ==
  LET subtotal == SumTotalPrice([k \in 1..Len(items) |->
                     [totalPrice |-> Number(OrZero(items[k].totalPrice))]])
  IN  [subtotal |-> subtotal, deliveryFee |-> Num(0), discount |-> Num(0),
       total |-> MaxZero(subtotal), currency |-> "MXN"]

pickProductFields(it) ==
  [productId |-> it.productID,
   quantity |-> Number(NullishZero(it.quantity)),
   unitPrice |-> Number(NullishZero(it.precio)),
   totalPrice |-> Number(NullishZero(it.total)),
   slug |-> it.slug, image |-> it.imagen, comments |-> it.comments]

PickedItems(list) == [k \in 1..Len(list) |-> pickProductFields(list[k])]

BadItemDoc(it) == it.productId = "" \/ LeqZero(it.quantity) \/ LtZero(it.totalPrice)

BadIndexesDoc(items) == {i \in 1..Len(items) : BadItemDoc(items[i])}

\* the early returns of one pass of the loop over orders (o counts from 0, as
\* the messages do); NoResp when the order passes
ValidateOrderDoc(ord, o) ==
  LET items == PickedItems(ord.items.list)
      lat   == Number(ord.lat)
      lng   == Number(ord.long)
  IN
  IF ord.bussineId = "" \/ ord.bussineZoneId = "" \/ ~IsFinite(lat) \/ ~IsFinite(lng)
    THEN FailAt(400, "Invalid order at index: requires bussineId, bussineZoneId, bussineLocation.lat, bussineLocation.long", <<o>>)
  ELSE IF ~ord.items.isArray \/ ord.items.list = <<>>
    THEN FailAt(400, "Invalid order at index: items must be a non-empty array", <<o>>)
  ELSE IF BadIndexesDoc(items) # {}
    THEN LET i  == Least(BadIndexesDoc(items))
             it == items[i]
         IN  IF it.productId = "" \/ LeqZero(it.quantity)
             THEN FailAt(400, "Invalid item at order.items: missing productID or quantity", <<o, i - 1>>)
             ELSE FailAt(400, "Invalid item at order.items: total < 0", <<o, i - 1>>)
  ELSE NoResp

\* the document of batch.set(orderRef, {...}), timestamps unresolved
OrderDataDoc(userId, ord, orderId) ==
  LET items == PickedItems(ord.items.list) IN
  [id |-> orderId,
   type |-> IF ord.deliveryMethod \in {"", "pickup"} THEN "pickup" ELSE "delivery",
   userId |-> userId, localId |-> ord.bussineId, deliveryManId |-> Null,
   status |-> "created", createdAt |-> 0, updatedAt |-> 0,
   payment |-> [method |-> "cash", status |-> "pending"],
   totals |-> calcTotalsFromItemTotals(items),
   items |-> items,
   location |-> [zoneId |-> ord.bussineZoneId, zoneName |-> ord.bussineZoneName,
                 lat |-> Number(ord.lat), lng |-> Number(ord.long)],
   localSnapshot |-> ord.bussineName,
   cancelReason |-> Unset, cancelledAt |-> Unset]

\* for (let o = 0; o < orders.length; o++): the state of the loop after the
\* first n orders: the response of an early return, the ids taken from doc()
\* and the documents staged in the batch
RECURSIVE LoopDoc(_, _, _, _)
LoopDoc(userId, ords, n, first) ==
  IF n = 0 THEN [resp |-> NoResp, ids |-> <<>>, staged |-> <<>>]
  ELSE LET prev == LoopDoc(userId, ords, n - 1, first)
           v    == ValidateOrderDoc(ords[n], n - 1)
           id   == first + Len(prev.ids)
       IN  IF prev.resp # NoResp THEN prev
           ELSE IF v # NoResp THEN [prev EXCEPT !.resp = v]
           ELSE [resp |-> NoResp, ids |-> Append(prev.ids, id),
                 staged |-> Append(prev.staged, OrderDataDoc(userId, ords[n], id))]

ValidateDoc(req) ==
  IF req.method # "POST" THEN Fail(405, "Method not allowed")
  ELSE IF req.userId = "" THEN Fail(400, "Missing userId")
  ELSE IF ~req.orders.isArray \/ req.orders.list = <<>>
    THEN Fail(400, "Missing orders: must be a non-empty array")
  ELSE NoResp

CreateOrderDeliveryDoc(p, req) ==
  /\ variant = "doc"
  /\ Free(p)
  /\ nreq' = nreq + 1
  /\ LET v == ValidateDoc(req) IN
     IF v # NoResp
     THEN /\ Respond(p, "create", req, <<>>, v)
          /\ UNCHANGED nextId
     ELSE LET l == LoopDoc(req.userId, req.orders.list, Len(req.orders.list), nextId) IN
          /\ nextId + Len(l.ids) <= MaxOrders + 1
          /\ nextId' = nextId + Len(l.ids)
          /\ IF l.resp # NoResp
             THEN Respond(p, "create", req, l.ids, l.resp)
             ELSE Await(p, "commit", "create", req, l.ids, l.staged, "")
  /\ UNCHANGED <<variant, store, clock>>

\* a variant of the batch that holds the order documents only
BatchCreateDoc_NoHistory(staged, ts) ==
  LET at(id) == CHOOSE k \in 1..Len(staged) : staged[k].id = id
      ids    == {staged[k].id : k \in 1..Len(staged)}
  IN
  /\ orders'  = [id \in OrderIds |->
                   IF id \in ids
                   THEN Set([staged[at(id)] EXCEPT !.createdAt = ts, !.updatedAt = ts])
                   ELSE orders[id]]
  /\ UNCHANGED <<history, byUser, byLocal, byStatus>>

\* batch.commit(): every staged order document and its first history document
BatchCreateDoc(staged, ts) ==
  LET at(id) == CHOOSE k \in 1..Len(staged) : staged[k].id = id
      ids    == {staged[k].id : k \in 1..Len(staged)}
  IN
  /\ orders'  = [id \in OrderIds |->
                   IF id \in ids
                   THEN Set([staged[at(id)] EXCEPT !.createdAt = ts, !.updatedAt = ts])
                   ELSE orders[id]]
  /\ history' = [id \in OrderIds |->
                   IF id \in ids
                   THEN <<[status |-> "created", at |-> ts, by |-> "user"]>>
                   ELSE history[id]]
  /\ UNCHANGED <<byUser, byLocal, byStatus>>

CreateCommitDoc(p) ==
  /\ variant = "doc"
  /\ h[p].pc = "commit" /\ h[p].op = "create"
  /\ BatchCreateDoc(h[p].staged, clock)
  /\ clock' = clock + 1
  /\ Respond(p, "create", h[p].req, h[p].ids, Ok(h[p].ids))
  /\ UNCHANGED <<variant, nextId, nreq>>

\* await batch.commit() rejects: nothing is applied
CreateFailDoc(p) ==
  /\ variant = "doc"
  /\ h[p].pc = "commit" /\ h[p].op = "create"
  /\ \E m \in StoreErrors :
       Respond(p, "create", h[p].req, h[p].ids, Caught(m))
  /\ UNCHANGED <<variant, store, nextId, clock, nreq>>

----------------------------------------------------------------------------
(* cancelOrderDelivery, both variants *)

\* a variant of the guard that lets a cancelled order be cancelled again
isCancellable_AlsoCancelled(status) == status \in {"created", "confirmed", "cancelled"}

isCancellable(status) == status \in {"created", "confirmed"}

\* the checks before the first await
PrecheckCancel(req) ==
  IF req.method # "POST" THEN Fail(405, "Method not allowed")
  ELSE IF req.userId = "" \/ req.orderId = 0
    THEN Fail(400, "Missing userId or orderId")
  ELSE NoResp

\* a variant of the checks without the ownership check
CheckSnapshot_NoOwnerCheck(req, snap) ==
  IF snap = Unset THEN Fail(404, "Order not found")
  ELSE IF ~isCancellable(snap[1].status)
    THEN FailAt(400, "Order cannot be cancelled from status", <<snap[1].status>>)
  ELSE NoResp

\* the checks on the snapshot the read returned
CheckSnapshot(req, snap) ==
  IF snap = Unset THEN Fail(404, "Order not found")
  ELSE IF snap[1].userId # req.userId THEN Fail(403, "Forbidden")
  ELSE IF ~isCancellable(snap[1].status)
    THEN FailAt(400, "Order cannot be cancelled from status", <<snap[1].status>>)
  ELSE NoResp

Receive(p, req) ==
  /\ Free(p)
  /\ nreq' = nreq + 1
  /\ LET v == PrecheckCancel(req) IN
     IF v # NoResp THEN Respond(p, "cancel", req, <<>>, v)
     ELSE Await(p, "read", "cancel", req, <<>>, <<>>, "")
  /\ UNCHANGED <<variant, store, nextId, clock>>

\* the snapshot arrives; the handler runs on to its next await or to a return
AfterRead(p) ==
  /\ h[p].pc = "read" /\ h[p].op = "cancel"
  /\ LET req  == h[p].req
         snap == IF req.orderId \in OrderIds THEN orders[req.orderId] ELSE Unset
         v    == CheckSnapshot(req, snap)
     IN  IF v # NoResp THEN Respond(p, "cancel", req, <<>>, v)
         ELSE Await(p, "commit", "cancel", req, <<req.orderId>>, <<>>, snap[1].status)
  /\ UNCHANGED <<variant, store, nextId, clock, nreq>>

ReadFails(p) ==
  /\ h[p].pc = "read" /\ h[p].op = "cancel"
  /\ \E m \in StoreErrors :
       Respond(p, "cancel", h[p].req, <<>>, Caught(m))
  /\ UNCHANGED <<variant, store, nextId, clock, nreq>>

WriteFails(p) ==
  /\ h[p].pc = "commit" /\ h[p].op = "cancel"
  /\ \E m \in StoreErrors :
       Respond(p, "cancel", h[p].req, h[p].ids, Caught(m))
  /\ UNCHANGED <<variant, store, nextId, clock, nreq>>

\* a variant of the field updates that rewrites createdAt as well
CancelledOrder_TouchesCreatedAt(o, reason, ts) ==
  [o EXCEPT !.status = "cancelled", !.updatedAt = ts, !.createdAt = ts,
            !.cancelReason = Set(reason), !.cancelledAt = Set(ts)]

\* the fields of the order a cancellation writes
CancelledOrder(o, reason, ts) ==
  [o EXCEPT !.status = "cancelled", !.updatedAt = ts,
            !.cancelReason = Set(reason), !.cancelledAt = Set(ts)]

\* a variant of the history entry that drops the reason
CancelEntry_NoReason(reason, ts) ==
  [status |-> "cancelled", at |-> ts, by |-> "user", reason |-> ""]

CancelEntry(reason, ts) ==
  [status |-> "cancelled", at |-> ts, by |-> "user", reason |-> reason]

(* Tree variant: src/unnamed/part_000 *)

CancelOrderDeliveryTree(p, req) == variant = "tree" /\ Receive(p, req)

CancelReadTree(p)     == variant = "tree" /\ AfterRead(p)

CancelReadFailTree(p) == variant = "tree" /\ ReadFails(p)

\* a variant of the update that adds the "cancelled" index entry and leaves
\* the entry of the previous status in place
UpdatesCancelTree_KeepOldBucket(id, currentStatus, reason, ts) ==
  /\ orders'   = [orders EXCEPT ![id] = Set(CancelledOrder(orders[id][1], reason, ts))]
  /\ history'  = [history EXCEPT ![id] = Append(@, CancelEntry(reason, ts))]
  /\ byStatus' = [byStatus EXCEPT !["cancelled"] = @ \cup {id}]
  /\ UNCHANGED <<byUser, byLocal>>

\* a variant of the update that clears the order id from every other bucket,
\* whatever status was read earlier
UpdatesCancelTree_ClearsEveryBucket(id, currentStatus, reason, ts) ==
  /\ orders'   = [orders EXCEPT ![id] = Set(CancelledOrder(orders[id][1], reason, ts))]
  /\ history'  = [history EXCEPT ![id] = Append(@, CancelEntry(reason, ts))]
  /\ byStatus' = [b \in Statuses |->
                    IF b = "cancelled" THEN byStatus[b] \cup {id} ELSE byStatus[b] \ {id}]
  /\ UNCHANGED <<byUser, byLocal>>

\* a variant of the update without the history path
UpdatesCancelTree_NoHistoryEntry(id, currentStatus, reason, ts) ==
  /\ orders'   = [orders EXCEPT ![id] = Set(CancelledOrder(orders[id][1], reason, ts))]
  /\ byStatus' = [b \in Statuses |->
                    IF b = "cancelled" THEN byStatus[b] \cup {id}
                    ELSE IF b = currentStatus THEN byStatus[b] \ {id}
                    ELSE byStatus[b]]
  /\ UNCHANGED <<history, byUser, byLocal>>

\* the multi-path update: four fields of the order, one history child, and
\* the status index entry moved from the bucket read earlier to "cancelled"
UpdatesCancelTree(id, currentStatus, reason, ts) ==
  /\ orders'   = [orders EXCEPT ![id] = Set(CancelledOrder(orders[id][1], reason, ts))]
  /\ history'  = [history EXCEPT ![id] = Append(@, CancelEntry(reason, ts))]
  /\ byStatus' = [b \in Statuses |->
                    IF b = "cancelled" THEN byStatus[b] \cup {id}
                    ELSE IF b = currentStatus THEN byStatus[b] \ {id}
                    ELSE byStatus[b]]
  /\ UNCHANGED <<byUser, byLocal>>

CancelCommitTree(p) ==
  /\ variant = "tree"
  /\ h[p].pc = "commit" /\ h[p].op = "cancel"
  /\ UpdatesCancelTree(h[p].req.orderId, h[p].cur, h[p].req.reason, clock)
  /\ clock' = clock + 1
  /\ Respond(p, "cancel", h[p].req, h[p].ids, Ok(<<>>))
  /\ UNCHANGED <<variant, nextId, nreq>>

CancelFailTree(p) == variant = "tree" /\ WriteFails(p)

(* Document variant: src/functions/src/index.ts *)

CancelOrderDeliveryDoc(p, req) == variant = "doc" /\ Receive(p, req)

CancelReadDoc(p)     == variant = "doc" /\ AfterRead(p)

CancelReadFailDoc(p) == variant = "doc" /\ ReadFails(p)

\* a variant of the batch that writes the history entry over the log
BatchCancelDoc_ReplacesHistory(id, reason, ts) ==
  /\ orders'  = [orders EXCEPT ![id] = Set(CancelledOrder(orders[id][1], reason, ts))]
  /\ history' = [history EXCEPT ![id] = <<CancelEntry(reason, ts)>>]
  /\ UNCHANGED <<byUser, byLocal, byStatus>>

\* batch.update(orderRef, ...) and batch.set(history.doc(), ...)
BatchCancelDoc(id, reason, ts) ==
  /\ orders'  = [orders EXCEPT ![id] = Set(CancelledOrder(orders[id][1], reason, ts))]
  /\ history' = [history EXCEPT ![id] = Append(@, CancelEntry(reason, ts))]
  /\ UNCHANGED <<byUser, byLocal, byStatus>>

CancelCommitDoc(p) ==
  /\ variant = "doc"
  /\ h[p].pc = "commit" /\ h[p].op = "cancel"
  /\ BatchCancelDoc(h[p].req.orderId, h[p].req.reason, clock)
  /\ clock' = clock + 1
  /\ Respond(p, "cancel", h[p].req, h[p].ids, Ok(<<>>))
  /\ UNCHANGED <<variant, nextId, nreq>>

CancelFailDoc(p) == variant = "doc" /\ WriteFails(p)

----------------------------------------------------------------------------
(* The external collaborators that confirm and deliver orders.  They are not
   part of this repository; the step below only says what the handlers can
   observe of them: the status of an order moves on, together with its
   status index entry where the variant keeps one. *)

NextStatus(s) == IF s = "created" THEN "confirmed" ELSE "delivered"

ExternalStatusChange(id) ==
  /\ orders[id] # Unset
  /\ orders[id][1].status \in {"created", "confirmed"}
  /\ LET o  == orders[id][1]
         to == NextStatus(o.status)
     IN  /\ orders'   = [orders EXCEPT ![id] = Set([o EXCEPT !.status = to])]
         /\ history'  = [history EXCEPT ![id] = Append(@, [status |-> to, by |-> "external"])]
         /\ byStatus' = IF variant = "tree"
                        THEN [byStatus EXCEPT ![o.status] = @ \ {id}, ![to] = @ \cup {id}]
                        ELSE byStatus
  /\ UNCHANGED <<variant, byUser, byLocal, nextId, clock, h, last, nreq>>

----------------------------------------------------------------------------
(* Requests *)

MaxItems == 2      \* items per order in a request
MaxBatch == 2      \* orders per request of the document variant

RECURSIVE SeqsOfLen(_, _)
SeqsOfLen(S, k) ==
  IF k = 0 THEN {<<>>} ELSE {Append(l, x) : l \in SeqsOfLen(S, k - 1), x \in S}

\* the arrays of at most n elements of S (the prefixes of those of n elements)
Arrays(S, n) == {Array(SubSeq(l, 1, k)) : l \in SeqsOfLen(S, n), k \in 0..n}

\* the same, and a value that is not an array
ArraysOrNot(S, n) ==
  {IF k < 0 THEN NotArray ELSE Array(SubSeq(l, 1, k)) : l \in SeqsOfLen(S, n), k \in (-1)..n}

\* location values: absent, null, the number 0, a non-zero number, text
Coords      == {Undef, Null, Num(0), Num(19), Str("abc")}
UserIds     == {""} \cup Users
LocalIds    == {""} \cup Locals
ZoneIds     == {"", "z1"}

ItemTree(pid, name, q, u) ==
  [productId |-> pid, productName |-> name, quantity |-> q, unitPrice |-> u,
   comments |-> "", image |-> ""]

GoodItemTree == ItemTree("p1", "n1", Num(2), Num(3))

\* one item per way of failing the item check, and one that passes
CoarseItemsTree ==
  {GoodItemTree, ItemTree("", "n1", Num(1), Num(3)), ItemTree("p1", "", Num(1), Num(3)),
   ItemTree("p1", "n1", Num(0), Num(3)), ItemTree("p1", "n1", Num(1), Num(-1))}

\* well-named items over a grid of quantities and unit prices
PricedItemsTree ==
  {ItemTree("p1", "n1", q, u) : q \in {Undef, Num(-1), Num(1), Num(2)},
                                u \in {Undef, Num(-1), Num(3)}}

TreeReq(m, u, l, z, lat, lng, items, fee, disc) ==
  [method |-> m, userId |-> u, localId |-> l, zoneId |-> z, zoneName |-> "",
   lat |-> lat, lng |-> lng, addressText |-> "", references |-> "",
   items |-> items, payment |-> "", deliveryFee |-> fee, discount |-> disc,
   customerSnapshot |-> "", localSnapshot |-> ""]

\* intake: every header against items of every fate
HeaderReqsTree ==
  {TreeReq("POST", u, l, z, lat, lng, items, Undef, Undef) :
     u \in {"", "u1"}, l \in LocalIds, z \in ZoneIds, lat \in Coords, lng \in Coords,
     items \in ArraysOrNot(CoarseItemsTree, MaxItems)}

\* intake: a good header with items over the grid of quantities and prices
PricedReqsTree ==
  {TreeReq("POST", "u1", "l1", "z1", Num(19), Num(-99), items, fee, disc) :
     items \in Arrays(PricedItemsTree, MaxItems),
     fee \in {Undef, Num(1)}, disc \in {Undef, Num(8)}}

\* the concurrent system: a valid request, a rejected one and one with the
\* wrong method, all by user u1 (SpecIntake has the wide request sets)
CoreReqsTree ==
  {TreeReq("POST", "u1", "l1", "z1", Num(19), Num(-99), items, Undef, Num(1)) :
     items \in {Array(<<>>), Array(<<GoodItemTree>>)}}
  \cup
  {TreeReq("GET", "u1", "l1", "z1", Num(19), Num(-99), Array(<<GoodItemTree>>), Undef, Num(1))}

ItemDoc(pid, q, precio, total) ==
  [productID |-> pid, quantity |-> q, precio |-> precio, total |-> total,
   slug |-> "", imagen |-> "", comments |-> ""]

GoodItemDoc == ItemDoc("p1", Num(2), Num(3), Num(6))

CoarseItemsDoc ==
  {GoodItemDoc, ItemDoc("", Num(1), Num(3), Num(3)), ItemDoc("p1", Num(0), Num(3), Num(0)),
   ItemDoc("p1", Num(1), Num(3), Num(-3))}

PricedItemsDoc ==
  {ItemDoc("p1", q, u, t) : q \in {Undef, Num(-1), Num(2)}, u \in {Undef, Num(3)},
                            t \in {Undef, Num(-1), Num(6), Num(7)}}

OrdDoc(l, z, lat, long, items) ==
  [bussineId |-> l, bussineName |-> "", bussineZoneId |-> z, bussineZoneName |-> "",
   deliveryMethod |-> "", lat |-> lat, long |-> long, items |-> items]

GoodOrdDoc == OrdDoc("l1", "z1", Num(19), Num(-99), Array(<<GoodItemDoc>>))

DocReq(m, u, ords) == [method |-> m, userId |-> u, orders |-> ords]

\* orders of a batch: one per fate of the loop body
BatchOrdsDoc ==
  {OrdDoc(l, "z1", lat, Num(-99), items) :
     l \in LocalIds, lat \in {Undef, Num(19)},
     items \in {Array(<<>>), Array(<<GoodItemDoc>>),
                Array(<<GoodItemDoc, ItemDoc("p1", Num(0), Num(3), Num(0))>>)}}

HeaderReqsDoc ==
  {DocReq("POST", u, Array(<<OrdDoc(l, z, lat, long, items)>>)) :
     u \in {"", "u1"}, l \in LocalIds, z \in ZoneIds, lat \in Coords, long \in Coords,
     items \in ArraysOrNot(CoarseItemsDoc, MaxItems)}

BatchReqsDoc ==
  {DocReq("POST", u, ords) : u \in {"", "u1"}, ords \in ArraysOrNot(BatchOrdsDoc, MaxBatch)}

PricedReqsDoc ==
  {DocReq("POST", "u1", Array(<<OrdDoc("l1", "z1", Num(19), Num(-99), items)>>)) :
     items \in Arrays(PricedItemsDoc, MaxItems)}

CoreReqsDoc ==
  {DocReq("POST", "u1", ords) :
     ords \in {Array(<<GoodOrdDoc>>), Array(<<GoodOrdDoc, GoodOrdDoc>>),
               Array(<<GoodOrdDoc, OrdDoc("l1", "z1", Num(19), Num(-99), Array(<<>>))>>)}}
  \cup
  {DocReq("GET", "u1", Array(<<GoodOrdDoc>>))}

\* cancellations by the owner u1 with and without a reason, by another user
\* and without a user; orderId 0 stands for a missing orderId
CancelReq(m, u, id, reason) == [method |-> m, userId |-> u, orderId |-> id, reason |-> reason]

CancelReqs ==
  {CancelReq("POST", "u1", id, "changed mind") : id \in OrderIds}
  \cup {CancelReq("POST", "u1", 0, ""), CancelReq("POST", "u1", 1, ""),
        CancelReq("POST", "u2", 1, ""),
        CancelReq("POST", "", 1, ""), CancelReq("GET", "u1", 1, "")}

----------------------------------------------------------------------------
(* Specifications *)

Init ==
  /\ variant \in {"tree", "doc"}
  /\ orders   = [id \in OrderIds |-> Unset]
  /\ history  = [id \in OrderIds |-> <<>>]
  /\ byUser   = [u \in Users |-> {}]
  /\ byLocal  = [l \in Locals |-> {}]
  /\ byStatus = [s \in Statuses |-> {}]
  /\ nextId = 1
  /\ clock = 1
  /\ h = [p \in Slots |-> Idle]
  /\ last = NoneYet
  /\ nreq = 0

\* createOrderDelivery and cancelOrderDelivery, interleaved at their awaits
NextCore ==
  \/ \E p \in Slots, req \in CoreReqsTree : CreateOrderDeliveryTree(p, req)
  \/ \E p \in Slots : CreateCommitTree(p)
  \/ \E p \in Slots : CreateFailTree(p)
  \/ \E p \in Slots, req \in CoreReqsDoc : CreateOrderDeliveryDoc(p, req)
  \/ \E p \in Slots : CreateCommitDoc(p)
  \/ \E p \in Slots : CreateFailDoc(p)
  \/ \E p \in Slots, req \in CancelReqs : CancelOrderDeliveryTree(p, req)
  \/ \E p \in Slots : CancelReadTree(p)
  \/ \E p \in Slots : CancelReadFailTree(p)
  \/ \E p \in Slots : CancelCommitTree(p)
  \/ \E p \in Slots : CancelFailTree(p)
  \/ \E p \in Slots, req \in CancelReqs : CancelOrderDeliveryDoc(p, req)
  \/ \E p \in Slots : CancelReadDoc(p)
  \/ \E p \in Slots : CancelReadFailDoc(p)
  \/ \E p \in Slots : CancelCommitDoc(p)
  \/ \E p \in Slots : CancelFailDoc(p)

SpecCore == Init /\ [][NextCore]_vars

\* the same, with the external collaborators moving orders on
Next ==
  \/ NextCore
  \/ \E id \in OrderIds : ExternalStatusChange(id)

Spec == Init /\ [][Next]_vars

\* one createOrderDelivery request, over the wide request sets
NextIntake ==
  \/ nreq = 0 /\ \E req \in HeaderReqsTree : CreateOrderDeliveryTree(1, req)
  \/ nreq = 0 /\ \E req \in PricedReqsTree : CreateOrderDeliveryTree(1, req)
  \/ CreateCommitTree(1)
  \/ CreateFailTree(1)
  \/ nreq = 0 /\ \E req \in HeaderReqsDoc : CreateOrderDeliveryDoc(1, req)
  \/ nreq = 0 /\ \E req \in BatchReqsDoc : CreateOrderDeliveryDoc(1, req)
  \/ nreq = 0 /\ \E req \in PricedReqsDoc : CreateOrderDeliveryDoc(1, req)
  \/ CreateCommitDoc(1)
  \/ CreateFailDoc(1)

SpecIntake == Init /\ [][NextIntake]_vars

----------------------------------------------------------------------------
(* Properties *)

Exists(id)  == orders[id] # Unset
Ord(id)     == orders[id][1]
Buckets(id) == {s \in Statuses : id \in byStatus[s]}
Range(f)    == {f[k] : k \in DOMAIN f}

\* the handler of slot p returns in this step; last' is its response
Answers(p) ==
  /\ last'.slot = p
  /\ \/ h[p].pc # "idle" /\ h'[p].pc = "idle"       \* after an await
     \/ nreq' = nreq + 1 /\ h' = h                  \* before the first await

Returns(op, code) ==
  \E p \in Slots : Answers(p) /\ last'.op = op /\ last'.resp.code = code

\* the localId the request gives for its k-th order
RequestLocal(req, k) ==
  IF variant = "tree" THEN req.localId ELSE req.orders.list[k].bussineId

\* the record and the history of a new order, right after the response
NewOrderReadable(id) ==
  /\ orders'[id] # Unset
  /\ orders'[id][1].id = id
  /\ orders'[id][1].status = "created"
  /\ Len(history'[id]) = 1
  /\ history'[id][1].status = "created"
  /\ history'[id][1].by = "user"

NewOrderIndexed(id, k) ==
  /\ id \in byUser'[last'.req.userId]
  /\ id \in byLocal'[RequestLocal(last'.req, k)]
  /\ id \in byStatus'["created"]

ReadReturns(p) ==
  /\ h[p].pc = "read" /\ h[p].op = "cancel"
  /\ Exists(h[p].req.orderId)
  /\ AfterRead(p)

\* ... and the order is the caller's and has status "created"
OwnerReadsCreated(p) ==
  /\ ReadReturns(p)
  /\ Ord(h[p].req.orderId).userId = h[p].req.userId
  /\ Ord(h[p].req.orderId).status = "created"

\* the store applies the write of a cancellation by the owner whose read saw
\* status "created"
OwnerCancelOfCreated(p) ==
  /\ h[p].pc = "commit" /\ h[p].op = "cancel" /\ h[p].cur = "created"
  /\ Exists(h[p].req.orderId)
  /\ Ord(h[p].req.orderId).userId = h[p].req.userId
  /\ Answers(p)
  /\ last'.resp.code # 500

CancelApplied(id, reason) ==
  /\ last'.resp = Ok(<<>>)
  /\ orders'[id][1].status = "cancelled"
  /\ orders'[id][1].cancelReason = Set(reason)
  /\ Len(history'[id]) = Len(history[id]) + 1
  /\ SubSeq(history'[id], 1, Len(history[id])) = history[id]
  /\ LET e == history'[id][Len(history'[id])] IN
       e.status = "cancelled" /\ e.by = "user" /\ e.reason = reason

InvalidStateTransition(status) ==
  FailAt(400, "Order cannot be cancelled from status", <<status>>)

\* C4 as stated: a cancelOrder request on an order whose stored status is
\* "cancelled" returns InvalidStateTransition (400, naming the status) and
\* writes nothing: record, history and indexes are as before.
C4_AsStated ==
  [][\A p \in Slots :
       ReadReturns(p) /\ Ord(h[p].req.orderId).status = "cancelled" =>
         /\ Answers(p)
         /\ last'.resp = InvalidStateTransition("cancelled")
         /\ UNCHANGED store]_vars

\* C4 amended: the request of the order's owner gets InvalidStateTransition;
\* the ownership check comes first, so another caller gets Forbidden; in both
\* cases nothing is written.
C4_CancelledStaysCancelled ==
  [][\A p \in Slots :
       ReadReturns(p) /\ Ord(h[p].req.orderId).status = "cancelled" =>
         /\ Answers(p)
         /\ last'.resp = IF Ord(h[p].req.orderId).userId = h[p].req.userId
                         THEN InvalidStateTransition("cancelled")
                         ELSE Fail(403, "Forbidden")
         /\ UNCHANGED <<store, nextId, clock>>]_vars

C4_Witness ==
  /\ last.op = "cancel"
  /\ last.resp = InvalidStateTransition("cancelled")
  /\ Ord(last.req.orderId).status = "cancelled"
  /\ Ord(last.req.orderId).userId = last.req.userId

\* C5: a cancelOrder request whose userId differs from the userId of the
\* stored order returns Forbidden (403), whatever the stored status, and
\* leaves the order record (status, updatedAt, cancelReason, cancelledAt), its
\* history and every index unchanged.
C5_ForbiddenChangesNothing ==
  [][\A p \in Slots :
       ReadReturns(p) /\ Ord(h[p].req.orderId).userId # h[p].req.userId =>
         /\ Answers(p)
         /\ last'.resp = Fail(403, "Forbidden")
         /\ UNCHANGED <<orders, history, byUser, byLocal, byStatus>>]_vars

\* Forbidden on a delivered order, which a cancellable status would not explain
C5_Witness ==
  /\ last.op = "cancel" /\ last.resp = Fail(403, "Forbidden")
  /\ Exists(last.req.orderId)
  /\ Ord(last.req.orderId).status = "delivered"
  /\ Ord(last.req.orderId).userId # last.req.userId
  /\ Len(history[last.req.orderId]) = 3

\* what is present of an order id
HasRecord(id)  == Exists(id)
HasHistory(id) == history[id] # <<>>
InByUser(id)   == \E u \in Users : id \in byUser[u]
InByLocal(id)  == \E l \in Locals : id \in byLocal[l]

----------------------------------------------------------------------------
(* Properties of intake, over the wide request sets *)

IsNum(x)  == x.t = "number"
NumOr0(x) == IF x.t = "number" THEN x.n ELSE 0

Accepted == last.op = "create" /\ last.resp.code = 200

NothingWritten ==
  /\ \A id \in OrderIds : orders[id] = Unset /\ history[id] = <<>>
  /\ \A u \in Users : byUser[u] = {}
  /\ \A l \in Locals : byLocal[l] = {}
  /\ \A st \in Statuses : byStatus[st] = {}

\* sum of quantity * unitPrice, and of the caller's item totals, in integers
RECURSIVE SumQU(_)
SumQU(list) ==
  IF list = <<>> THEN 0
  ELSE list[1].quantity.n * list[1].unitPrice.n + SumQU(Tail(list))

RECURSIVE SumSuppliedTotals(_)
SumSuppliedTotals(list) ==
  IF list = <<>> THEN 0 ELSE list[1].total.n + SumSuppliedTotals(Tail(list))

IntegerItemsTree(list) ==
  \A k \in 1..Len(list) : IsNum(list[k].quantity) /\ IsNum(list[k].unitPrice)

IntegerItemsDoc(list) ==
  \A k \in 1..Len(list) :
    IsNum(list[k].quantity) /\ IsNum(list[k].precio) /\ IsNum(list[k].total)

TotalsClamped(t) ==
  /\ t.total = Num(Max(0, t.subtotal.n + t.deliveryFee.n - t.discount.n))
  /\ t.total.n >= 0

\* the accepted request of the last response, when its numbers are integers
\* (an absent deliveryFee or discount counts as 0)
AcceptedTree ==
  /\ variant = "tree" /\ Accepted
  /\ IntegerItemsTree(last.req.items.list)

AcceptedDoc(k) ==
  /\ variant = "doc" /\ Accepted
  /\ k \in 1..Len(last.req.orders.list)
  /\ IntegerItemsDoc(last.req.orders.list[k].items.list)

\* C7 as stated: for every accepted request the persisted totals have
\* subtotal = sum of quantity_i * unitPrice_i,
\* total = max(0, subtotal + deliveryFee - discount), and total >= 0.
C7_AsStated ==
  /\ AcceptedTree =>
       LET t == Ord(last.resp.ids[1]).totals IN
       /\ t.subtotal = Num(SumQU(last.req.items.list))
       /\ t.total = Num(Max(0, t.subtotal.n + NumOr0(last.req.deliveryFee)
                                            - NumOr0(last.req.discount)))
       /\ t.total.n >= 0
  /\ \A k \in 1..MaxBatch : AcceptedDoc(k) =>
       LET t == Ord(last.resp.ids[k]).totals IN
       /\ t.subtotal = Num(SumQU([i \in 1..Len(last.req.orders.list[k].items.list) |->
                                   [quantity |-> last.req.orders.list[k].items.list[i].quantity,
                                    unitPrice |-> last.req.orders.list[k].items.list[i].precio]]))
       /\ TotalsClamped(t)

\* C7 amended: the tree variant computes the subtotal from quantity and unit
\* price; the document variant adds up the item totals the caller sent (it
\* uses neither the unit prices nor a fee or discount, which it stores as 0);
\* in both, total = max(0, subtotal + deliveryFee - discount) >= 0.
C7_TotalsOfAcceptedOrder ==
  /\ AcceptedTree =>
       LET t == Ord(last.resp.ids[1]).totals IN
       /\ t.subtotal = Num(SumQU(last.req.items.list))
       /\ t.deliveryFee = Num(NumOr0(last.req.deliveryFee))
       /\ t.discount = Num(NumOr0(last.req.discount))
       /\ TotalsClamped(t)
  /\ \A k \in 1..MaxBatch : AcceptedDoc(k) =>
       LET t == Ord(last.resp.ids[k]).totals IN
       /\ t.subtotal = Num(SumSuppliedTotals(last.req.orders.list[k].items.list))
       /\ t.deliveryFee = Num(0) /\ t.discount = Num(0)
       /\ TotalsClamped(t)

\* an accepted order whose discount exceeds subtotal + fee: the total is 0
C7_Witness ==
  /\ AcceptedTree
  /\ LET t == Ord(last.resp.ids[1]).totals IN
       /\ t.subtotal.n > 0
       /\ t.subtotal.n + t.deliveryFee.n - t.discount.n < 0
       /\ t.total = Num(0)

\* a location both variants take: two non-zero numbers
GoodCoord(c) == IsNum(c) /\ c.n # 0

GoodHeaderTree(req) ==
  /\ req.userId # "" /\ req.localId # "" /\ req.zoneId # ""
  /\ GoodCoord(req.lat) /\ GoodCoord(req.lng)

GoodHeaderOrd(ord) ==
  /\ ord.bussineId # "" /\ ord.bussineZoneId # ""
  /\ GoodCoord(ord.lat) /\ GoodCoord(ord.long)

\* an item that breaks a rule of the item check
OffendingTree(it) ==
  \/ it.productId = "" \/ it.productName = ""
  \/ ~(IsNum(it.quantity) /\ it.quantity.n > 0)
  \/ IsNum(it.unitPrice) /\ it.unitPrice.n < 0

OffendingDoc(it) ==
  \/ it.productID = ""
  \/ ~(IsNum(it.quantity) /\ it.quantity.n > 0)
  \/ IsNum(it.total) /\ it.total.n < 0

OffendingAtTree(list) == {k \in 1..Len(list) : OffendingTree(list[k])}
OffendingAtDoc(list)  == {k \in 1..Len(list) : OffendingDoc(list[k])}

NoItems(items) == ~items.isArray \/ items.list = <<>>

\* an order of a batch that breaks no rule at all
GoodOrd(ord) ==
  GoodHeaderOrd(ord) /\ ~NoItems(ord.items) /\ OffendingAtDoc(ord.items.list) = {}

\* the orders of a batch request without items
EmptyOrds(req) ==
  IF req.orders.isArray
  THEN {o \in 1..Len(req.orders.list) : NoItems(req.orders.list[o].items)}
  ELSE {}

EmptyItemsIn(req) ==
  IF variant = "tree" THEN NoItems(req.items) ELSE EmptyOrds(req) # {}

EmptyItemsTree == Fail(400, "Items must be a non-empty array")
EmptyItemsDoc(o) ==
  FailAt(400, "Invalid order at index: items must be a non-empty array", <<o - 1>>)

IsEmptyItems(resp) ==
  IF variant = "tree" THEN resp = EmptyItemsTree
  ELSE \E o \in 1..MaxBatch : resp = EmptyItemsDoc(o)

Rejected400(P(_)) ==
  /\ last.op = "create" /\ P(last.req) => last.resp.code = 400 /\ NothingWritten
  /\ \A p \in Slots : h[p].op = "create" => ~P(h[p].req)

\* C8 as stated: a createOrder request whose items collection is empty or not
\* a list always fails with EmptyItems (400) and writes nothing, in a batch
\* request neither for its other orders.
C8_AsStated ==
  /\ Rejected400(EmptyItemsIn)
  /\ last.op = "create" /\ EmptyItemsIn(last.req) => IsEmptyItems(last.resp)

\* C8 amended: such a request always fails with a 400 and writes nothing; the
\* error is EmptyItems when no earlier check fails, that is when userId,
\* localId, zoneId and location are good and, in a batch, every order before
\* the first one without items breaks no rule.
C8_EmptyItemsRejected ==
  /\ Rejected400(EmptyItemsIn)
  /\ last.op = "create" /\ variant = "tree"
       /\ NoItems(last.req.items) /\ GoodHeaderTree(last.req)
     => last.resp = EmptyItemsTree
  /\ last.op = "create" /\ variant = "doc" /\ last.req.userId # ""
       /\ EmptyOrds(last.req) # {}
     => LET o == Least(EmptyOrds(last.req)) IN
          /\ GoodHeaderOrd(last.req.orders.list[o])
          /\ \A n \in 1..(o - 1) : GoodOrd(last.req.orders.list[n])
          => last.resp = EmptyItemsDoc(o)

\* a batch whose second order has no items, after a first order that was staged
C8_Witness ==
  /\ variant = "doc" /\ last.op = "create"
  /\ last.resp = EmptyItemsDoc(2)
  /\ Len(last.ids) = 1
  /\ NothingWritten

\* the orders of a batch request with an offending item
OffendingOrds(req) ==
  IF req.orders.isArray
  THEN {o \in 1..Len(req.orders.list) :
          /\ req.orders.list[o].items.isArray
          /\ OffendingAtDoc(req.orders.list[o].items.list) # {}}
  ELSE {}

HasNonPositiveQuantity(req) ==
  IF variant = "tree"
  THEN req.items.isArray /\
       \E k \in 1..Len(req.items.list) :
         IsNum(req.items.list[k].quantity) /\ req.items.list[k].quantity.n <= 0
  ELSE req.orders.isArray /\
       \E o \in 1..Len(req.orders.list) :
         req.orders.list[o].items.isArray /\
         \E k \in 1..Len(req.orders.list[o].items.list) :
           /\ IsNum(req.orders.list[o].items.list[k].quantity)
           /\ req.orders.list[o].items.list[k].quantity.n <= 0

\* InvalidItem at the first offending item: key i<k> in the tree variant,
\* order[o].items[i] (both from 0) in the document variant
InvalidItemAtFirst(req, resp) ==
  IF variant = "tree"
  THEN resp = FailAt(400, "Invalid item at", <<Least(OffendingAtTree(req.items.list))>>)
  ELSE LET o == Least(OffendingOrds(req))
           i == Least(OffendingAtDoc(req.orders.list[o].items.list))
       IN  /\ resp.code = 400
           /\ resp.error \in {"Invalid item at order.items: missing productID or quantity",
                              "Invalid item at order.items: total < 0"}
           /\ resp.at = <<o - 1, i - 1>>

\* C9 as stated: a createOrder request with an item of quantity <= 0 fails
\* with InvalidItem naming the position of the first offending item, and no
\* order of the request, whole or partial, is visible afterwards.
C9_AsStated ==
  /\ Rejected400(HasNonPositiveQuantity)
  /\ last.op = "create" /\ HasNonPositiveQuantity(last.req)
     => InvalidItemAtFirst(last.req, last.resp)

\* C9 amended: such a request always fails with a 400 and nothing of it is
\* visible; the error is InvalidItem at the first offending item when no
\* earlier check fails, that is when userId, localId, zoneId and location are
\* good and, in a batch, every order before the first one with an offending
\* item breaks no rule.
C9_NonPositiveQuantityRejected ==
  /\ Rejected400(HasNonPositiveQuantity)
  /\ last.op = "create" /\ variant = "tree"
       /\ HasNonPositiveQuantity(last.req) /\ GoodHeaderTree(last.req)
     => InvalidItemAtFirst(last.req, last.resp)
  /\ last.op = "create" /\ variant = "doc" /\ last.req.userId # ""
       /\ HasNonPositiveQuantity(last.req)
     => LET o == Least(OffendingOrds(last.req)) IN
          /\ GoodHeaderOrd(last.req.orders.list[o])
          /\ \A n \in 1..(o - 1) : GoodOrd(last.req.orders.list[n])
          => InvalidItemAtFirst(last.req, last.resp)

\* a good first item and a second item of quantity 0, reported as i2
C9_Witness ==
  /\ variant = "tree" /\ last.op = "create"
  /\ Len(last.req.items.list) = 2
  /\ last.req.items.list[2].quantity = Num(0)
  /\ last.resp = FailAt(400, "Invalid item at", <<2>>)
  /\ NothingWritten

----------------------------------------------------------------------------
(* The state machine of cancellation *)

\* a step of a handler (the external collaborators leave h alone)
HandlerStep == h' # h

\* C10: the only status change the handlers make on an existing order is from
\* "created" or "confirmed" to "cancelled": every handler step that changes a
\* status starts in one of the two and ends in "cancelled" (so an order in
\* another status, such as "delivered", is never changed by cancelOrder), and
\* a cancelled order keeps its status for ever.
C10_OnlyCancellableToCancelled ==
  [][\A id \in OrderIds : Exists(id) =>
       /\ HandlerStep /\ orders'[id][1].status # Ord(id).status =>
            /\ Ord(id).status \in {"created", "confirmed"}
            /\ orders'[id][1].status = "cancelled"
       /\ Ord(id).status = "cancelled" => orders'[id][1].status = "cancelled"]_vars

----------------------------------------------------------------------------
(* Concurrent cancellations *)

BucketsOf(bs, id) == {s \in Statuses : id \in bs[s]}

CountCancelled(hs) == Cardinality({k \in 1..Len(hs) : hs[k].status = "cancelled"})

\* the handler of slot p read status "created" and is about to write, while
\* another cancellation of the same order that read "created" too is about to
\* write or has written already
Racing(p) ==
  /\ h[p].pc = "commit" /\ h[p].op = "cancel" /\ h[p].cur = "created"
  /\ \/ \E q \in Slots \ {p} :
          /\ h[q].pc = "commit" /\ h[q].op = "cancel" /\ h[q].cur = "created"
          /\ h[q].req.orderId = h[p].req.orderId
     \/ Ord(h[p].req.orderId).status = "cancelled"

RaceWriteApplied(p) == Racing(p) /\ Answers(p) /\ last'.resp.code # 500

StaleWriteApplied(p) ==
  /\ h[p].pc = "commit" /\ h[p].op = "cancel"
  /\ Ord(h[p].req.orderId).status \notin {h[p].cur, "cancelled"}
  /\ Answers(p) /\ last'.resp.code # 500

\* C12: in the tree variant, when another actor changes an order's status
\* (moving its status index entry) between the read and the write of a
\* cancellation, the write leaves a stale index entry: afterwards the status
\* is "cancelled" and the order id is in the bucket of the status the other
\* actor set as well as in "cancelled".
C12_StaleIndexAfterExternalChange ==
  [][\A p \in Slots : variant = "tree" /\ StaleWriteApplied(p) =>
       /\ orders'[h[p].req.orderId][1].status = "cancelled"
       /\ BucketsOf(byStatus', h[p].req.orderId)
            = {Ord(h[p].req.orderId).status, "cancelled"}]_vars

\* a cancelled order still listed under "confirmed"
C12_Witness ==
  /\ variant = "tree"
  /\ last.op = "cancel" /\ last.resp = Ok(<<>>)
  /\ Ord(last.req.orderId).status = "cancelled"
  /\ last.req.orderId \in byStatus["confirmed"]
  /\ history[last.req.orderId][2].by = "external"

----------------------------------------------------------------------------
(* Location of an intake request *)

FiniteCoords(lat, lng) == IsNum(lat) /\ IsNum(lng)

\* every order of the request gives two finite numbers
FiniteLocation(req) ==
  IF variant = "tree" THEN FiniteCoords(req.lat, req.lng)
  ELSE \A o \in 1..Len(req.orders.list) :
         FiniteCoords(req.orders.list[o].lat, req.orders.list[o].long)

\* the request breaks no rule other than those on lat and lng
ValidButLocation(req) ==
  IF variant = "tree"
  THEN /\ req.userId # "" /\ req.localId # "" /\ req.zoneId # ""
       /\ ~NoItems(req.items) /\ OffendingAtTree(req.items.list) = {}
  ELSE /\ req.userId # "" /\ req.orders.isArray /\ req.orders.list # <<>>
       /\ \A o \in 1..Len(req.orders.list) :
            LET ord == req.orders.list[o] IN
            /\ ord.bussineId # "" /\ ord.bussineZoneId # ""
            /\ ~NoItems(ord.items) /\ OffendingAtDoc(ord.items.list) = {}

BadLocation(req) ==
  IF variant = "tree" THEN ~FiniteCoords(req.lat, req.lng)
  ELSE req.orders.isArray /\ ~FiniteLocation(req)

\* C13: createOrder accepts the location of a request exactly when lat and lng
\* are both finite numbers: an otherwise valid request with finite numeric lat
\* and lng, 0 included, is not rejected, and a request whose lat or lng is
\* absent or not a finite number is rejected with a 400 before anything is
\* written.
C13_LocationAcceptedIffFinite ==
  /\ last.op = "create" /\ ValidButLocation(last.req) /\ FiniteLocation(last.req)
     => last.resp.code # 400
  /\ Rejected400(BadLocation)

----------------------------------------------------------------------------
(* Store failures *)

\* a store call of the handler of slot p fails and the handler answers
StoreFailureAnswered(p) ==
  /\ h[p].pc \in {"read", "commit"}
  /\ Answers(p)
  /\ last'.resp.code = 500

InternalError == Fail(500, "Internal error")

\* C14: when the store's read or write fails during createOrder or
\* cancelOrder, the caller receives a 500 whose message is one fixed generic
\* text, whatever the store error's own message, the handler ends without a
\* retry, and the persisted state is as before the request.
C14_GenericInternalError ==
  [][\A p \in Slots : StoreFailureAnswered(p) =>
       /\ last'.resp = InternalError
       /\ h'[p] = Idle
       /\ UNCHANGED store]_vars

----------------------------------------------------------------------------
(* What a response tells a caller who is not the owner *)

\* the response of cancelOrder to `req` on a store whose read of
\* req.orderId returns `snap`
ResponseOn(req, snap) ==
  IF PrecheckCancel(req) # NoResp THEN PrecheckCancel(req) ELSE CheckSnapshot(req, snap)

\* C15: for a caller who does not own the targeted order the response of
\* cancelOrder does not reveal whether the order exists: it has the status
\* code and the message the same request gets on the store that differs only
\* in not holding the order.
C15_NoExistenceLeak ==
  [][\A p \in Slots :
       ReadReturns(p) /\ Ord(h[p].req.orderId).userId # h[p].req.userId =>
         /\ Answers(p)
         /\ last'.resp.code = ResponseOn(h[p].req, Unset).code
         /\ last'.resp.error = ResponseOn(h[p].req, Unset).error]_vars

----------------------------------------------------------------------------
(* Order of the validation rules *)

\* the location rule as each variant applies it: the tree variant wants two
\* truthy values, the document variant two values that Number() makes finite
LocationMissingTree(req) == Falsy(req.lat) \/ Falsy(req.lng)

CoordTakenDoc(c) == IsNum(c) \/ c.t = "null"

MissingUserId == Fail(400, "Missing userId")

MissingFieldsTree ==
  Fail(400, "Missing required fields: localId, zoneId, location.lat, location.lng")

MissingFieldsDoc(o) ==
  FailAt(400, "Invalid order at index: requires bussineId, bussineZoneId, bussineLocation.lat, bussineLocation.long", <<o - 1>>)

InvalidItemDoc(ord, o) ==
  LET i  == Least(OffendingAtDoc(ord.items.list))
      it == ord.items.list[i]
  IN  IF it.productID = "" \/ ~(IsNum(it.quantity) /\ it.quantity.n > 0)
      THEN FailAt(400, "Invalid item at order.items: missing productID or quantity", <<o - 1, i - 1>>)
      ELSE FailAt(400, "Invalid item at order.items: total < 0", <<o - 1, i - 1>>)

\* the error of the earliest violated rule of a tree request; NoResp if none
EarliestErrorTree(req) ==
  IF req.userId = "" THEN MissingUserId
  ELSE IF req.localId = "" \/ req.zoneId = "" \/ LocationMissingTree(req)
    THEN MissingFieldsTree
  ELSE IF NoItems(req.items) THEN EmptyItemsTree
  ELSE IF OffendingAtTree(req.items.list) # {}
    THEN FailAt(400, "Invalid item at", <<Least(OffendingAtTree(req.items.list))>>)
  ELSE NoResp

\* the error of the earliest violated rule of the o-th order of a batch
EarliestErrorOrd(ord, o) ==
  IF ord.bussineId = "" \/ ord.bussineZoneId = ""
       \/ ~CoordTakenDoc(ord.lat) \/ ~CoordTakenDoc(ord.long)
    THEN MissingFieldsDoc(o)
  ELSE IF NoItems(ord.items) THEN EmptyItemsDoc(o)
  ELSE IF OffendingAtDoc(ord.items.list) # {} THEN InvalidItemDoc(ord, o)
  ELSE NoResp

\* the orders of a batch that violate a rule
FailingOrds(req) ==
  {o \in 1..Len(req.orders.list) : EarliestErrorOrd(req.orders.list[o], o) # NoResp}

EarliestErrorDoc(req) ==
  IF req.userId = "" THEN MissingUserId
  ELSE IF ~req.orders.isArray \/ req.orders.list = <<>>
    THEN Fail(400, "Missing orders: must be a non-empty array")
  ELSE IF FailingOrds(req) # {}
    THEN EarliestErrorOrd(req.orders.list[Least(FailingOrds(req))], Least(FailingOrds(req)))
  ELSE NoResp

EarliestError(req) ==
  IF variant = "tree" THEN EarliestErrorTree(req) ELSE EarliestErrorDoc(req)

\* a request that violates a rule is answered at once, with the error of the
\* earliest violated rule, and nothing is written
FailsFast ==
  /\ last.op = "create" /\ EarliestError(last.req) # NoResp =>
       last.resp = EarliestError(last.req) /\ NothingWritten
  /\ \A p \in Slots : h[p].op = "create" => EarliestError(h[p].req) = NoResp

\* C16 as stated: validation is fail-fast in the order userId, then
\* localId/zoneId/location, then non-empty items, then the items in input
\* order; a request violating several rules gets the error of the earliest
\* one, no identifier is allocated and nothing is written.
C16_AsStated ==
  /\ FailsFast
  /\ last.op = "create" /\ EarliestError(last.req) # NoResp =>
       last.ids = <<>> /\ nextId = 1

\* C16 amended: in the document variant the rules after userId are applied
\* order by order, and the orders of the batch that passed before the failing
\* one have each taken an identifier (and nothing else); the tree variant
\* allocates none.
C16_FailFastInOrder ==
  /\ FailsFast
  /\ last.op = "create" /\ EarliestError(last.req) # NoResp =>
       IF variant = "doc" /\ EarliestError(last.req) \notin
            {MissingUserId, Fail(400, "Missing orders: must be a non-empty array")}
       THEN /\ Len(last.ids) = Least(FailingOrds(last.req)) - 1
            /\ nextId = 1 + Len(last.ids)
       ELSE last.ids = <<>> /\ nextId = 1

\* a tree request that violates the header rule, the items rule being
\* violated too: the header's error is the one returned
C16_Witness ==
  /\ variant = "tree" /\ last.op = "create"
  /\ last.req.userId # "" /\ last.req.zoneId = ""
  /\ last.req.items.isArray /\ Len(last.req.items.list) = 2
  /\ OffendingAtTree(last.req.items.list) = {1, 2}
  /\ last.resp = MissingFieldsTree
  /\ nextId = 1 /\ NothingWritten

----------------------------------------------------------------------------
(* Frame of a cancellation *)

\* order record `new` differs from `old` at most in the four fields a
\* cancellation writes
SameButCancelFields(old, new) ==
  [new EXCEPT !.status = old.status, !.updatedAt = old.updatedAt,
              !.cancelReason = old.cancelReason, !.cancelledAt = old.cancelledAt] = old

\* C17: a successful cancelOrder changes only status, updatedAt, cancelReason,
\* cancelledAt, the history log and the status index entry of its order: the
\* order's id, userId, localId, type, createdAt, items, totals, payment (its
\* status stays "pending"), location and snapshots, the by-user and by-local
\* indexes and every other order are left as they were.
C17_CancelFrame ==
  [][Returns("cancel", 200) =>
       LET id == last'.req.orderId IN
       /\ SameButCancelFields(Ord(id), orders'[id][1])
       /\ orders'[id][1].payment.status = "pending"
       /\ UNCHANGED <<byUser, byLocal>>
       /\ \A s \in Statuses : byStatus'[s] \ {id} = byStatus[s] \ {id}
       /\ \A other \in OrderIds \ {id} :
            orders'[other] = orders[other] /\ history'[other] = history[other]]_vars

\* a cancelled order next to another order that is still "created"
C17_Witness ==
  /\ last.op = "cancel" /\ last.resp = Ok(<<>>)
  /\ LET id == last.req.orderId IN
       /\ Ord(id).status = "cancelled"
       /\ Ord(id).createdAt < Ord(id).updatedAt
       /\ Ord(id).items # <<>>
       /\ Ord(id).payment.status = "pending"
       /\ \E other \in OrderIds \ {id} : Exists(other) /\ Ord(other).status = "created"

----------------------------------------------------------------------------
(* The history log *)

\* the log of an order keeps its entries and grows by `n` entries
Appends(id, n) ==
  /\ Len(history'[id]) = Len(history[id]) + n
  /\ SubSeq(history'[id], 1, Len(history[id])) = history[id]

\* the order is created in this step, or its status changes in this step
CreatedNow(id) == orders[id] = Unset /\ orders'[id] # Unset
StatusChanges(id) ==
  orders[id] # Unset /\ orders'[id] # Unset /\ orders'[id][1].status # Ord(id).status

ErrorReturned == \E p \in Slots : Answers(p) /\ last'.resp.code # 200

\* the store applies a cancellation of an order that is cancelled already
RepeatedCancel(id) ==
  /\ orders[id] # Unset /\ Ord(id).status = "cancelled"
  /\ Returns("cancel", 200) /\ last'.req.orderId = id

\* C18 as stated: the history log is append-only with one entry per state
\* transition: no step removes or alters an entry, a request that returns an
\* error appends nothing, and the number of entries of an order is 1 plus the
\* number of times its status has changed (every step adds one entry when it
\* creates the order or changes its status, and none otherwise).
C18_AsStated ==
  [][/\ ErrorReturned => history' = history
     /\ \A id \in OrderIds :
          Appends(id, IF CreatedNow(id) \/ StatusChanges(id) THEN 1 ELSE 0)]_vars

\* C18 amended: a cancellation applied to an order that a racing cancellation
\* has cancelled already adds an entry without changing the status, so the
\* number of entries is 1 plus the status changes plus those repeated
\* cancellations.
C18_HistoryAppendOnly ==
  [][/\ ErrorReturned => history' = history
     /\ \A id \in OrderIds :
          Appends(id, IF CreatedNow(id) \/ StatusChanges(id) \/ RepeatedCancel(id)
                      THEN 1 ELSE 0)]_vars

\* a log of three transitions, and a later cancellation that was refused
C18_Witness ==
  /\ last.op = "cancel" /\ last.resp.code = 400
  /\ last.req.orderId \in OrderIds
  /\ Exists(last.req.orderId)
  /\ LET hs == history[last.req.orderId] IN
       /\ Len(hs) = 3
       /\ hs[1].status = "created" /\ hs[2].status = "confirmed"
       /\ hs[3].status = "delivered"

LastEntry(id) == history[id][Len(history[id])]

\* C19: in every reachable state of interleaved createOrder and cancelOrder
\* requests, every persisted order has a history log and its status is the
\* status of the entry appended to the log most recently.
C19_StatusIsLastHistoryEntry ==
  \A id \in OrderIds : Exists(id) =>
    history[id] # <<>> /\ LastEntry(id).status = Ord(id).status

\* a cancelled order of the document variant next to one that is "created"
C19_Witness ==
  /\ variant = "doc"
  /\ \E id, other \in OrderIds :
       /\ Exists(id) /\ Exists(other)
       /\ Ord(id).status = "cancelled" /\ LastEntry(id).status = "cancelled"
       /\ Len(history[id]) = 2
       /\ Ord(other).status = "created" /\ LastEntry(other).status = "created"

----------------------------------------------------------------------------
(* The indexes against the records *)

\* after the step, every index entry names an existing order and files it
\* under that order's own userId, localId or status
IndexesAgree ==
  \A id \in OrderIds :
    /\ \A u \in Users : id \in byUser'[u] =>
         orders'[id] # Unset /\ orders'[id][1].userId = u
    /\ \A l \in Locals : id \in byLocal'[l] =>
         orders'[id] # Unset /\ orders'[id][1].localId = l
    /\ \A s \in Statuses : id \in byStatus'[s] =>
         orders'[id] # Unset /\ orders'[id][1].status = s

\* C20: the secondary indexes never dangle or disagree with the records: in
\* every reachable state each order id in the by-user, by-local or by-status
\* index names an existing order and is filed under that order's own userId,
\* localId and status, and an id once in the by-user and by-local indexes is
\* never removed from them.
C20_IndexesAgreeWithRecords ==
  [][/\ IndexesAgree
     /\ \A u \in Users : byUser[u] \subseteq byUser'[u]
     /\ \A l \in Locals : byLocal[l] \subseteq byLocal'[l]]_vars

====
